---- MODULE Spec2Model ----
(***************************************************************************)
(* Task-management API with a Pomodoro flag (src/main.py): the tasks and   *)
(* pomodoro_sessions tables, and one action per route.                     *)
(***************************************************************************)
EXTENDS Integers, Sequences, FiniteSets, TLC

\* ------------------------------------------------------------------ bounds
\* Number of identifiers uuid.uuid4() can hand out in one behaviour.
MaxUuid == 2
\* Largest number of rows of the pomodoro_sessions table.
MaxSessions == 3

\* ------------------------------------------------------- program constants
MinTitleLen == 3
MaxTitleLen == 100
MaxDescriptionLen == 300
SecondsPerMinute == 60

\* ------------------------------------------------------------ value spaces
\* Optional[T]: None is the empty sequence, a present value v is <<v>>.
None == <<>>
Some(v) == <<v>>

\* str(uuid.uuid4()) values.
Ids == 1..MaxUuid

\* class TaskStatus(str, Enum), by member name.
TaskStatus == {"TO_DO", "IN_PROGRESS", "FINISHED"}

\* Strings are sequences of characters.
TitleAbc == <<"a", "b", "c">>
TitleABc == <<"A", "B", "c">>
TitleXyz == <<"x", "y", "z">>
TitleShort == <<"a", "b">>
TitleLong == [i \in 1..(MaxTitleLen + 1) |-> "a"]
DescD == <<"d">>
DescLong == [i \in 1..(MaxDescriptionLen + 1) |-> "d"]

\* JSON bodies a client sends to POST /tasks and PUT /tasks/{id}; status may
\* be omitted.
Bodies ==
    { [title |-> t, description |-> ds[1], status |-> ds[2]] :
        t \in {TitleAbc, TitleABc, TitleXyz},
        ds \in { <<None, None>>, <<Some(DescD), Some("IN_PROGRESS")>> } }
    \cup { [title |-> TitleXyz, description |-> None, status |-> Some("FINISHED")],
           [title |-> TitleShort, description |-> None, status |-> None],
           [title |-> TitleLong, description |-> None, status |-> None],
           [title |-> TitleAbc, description |-> Some(DescLong), status |-> None] }

\* Session rows: task_id is a free string column, times are seconds.
SessionTaskIds == {"A", "B"}
StartTimes == {0, 900}
EndTimes == {600, 1500}
SessionRows ==
    [task_id : SessionTaskIds, start_time : StartTimes, end_time : EndTimes,
     completed : BOOLEAN]
SessionTables ==
    UNION { [1..n -> SessionRows] : n \in 0..MaxSessions }

VARIABLES
    tasks,      \* table "tasks": primary key id -> the other columns
    sessions,   \* table "pomodoro_sessions": rows in storage order
    issued,     \* identifiers uuid.uuid4() has produced so far
    req,        \* the request handled last
    resp,       \* its response
    written,    \* history: id -> fields last given by a successful create/update
    pc,         \* per worker thread: position in its handler
    wreq,       \* per worker thread: the request it is handling
    loaded,     \* per worker thread: the ORM object loaded by its query
    wresp       \* per worker thread: its last response

vars == <<tasks, sessions, issued, req, resp, written, pc, wreq, loaded, wresp>>

\* ------------------------------------------------------------ pydantic layer
\* TaskCreate field constraints; a violation is answered with 422.
ValidTaskCreate(body) ==
    /\ Len(body.title) >= MinTitleLen
    /\ Len(body.title) <= MaxTitleLen
    /\ (body.description = None \/ Len(body.description[1]) <= MaxDescriptionLen)

\* The parsed TaskCreate: status defaults to TaskStatus.TO_DO.
TaskCreate(body) ==
    [title |-> body.title,
     description |-> body.description,
     status |-> IF body.status = None THEN "TO_DO" ELSE body.status[1]]

\* response_model=Task: id, title, description, status of a row.
Task(id, row) ==
    [id |-> id, title |-> row.title, description |-> row.description,
     status |-> row.status]

\* ------------------------------------------------------------------ queries
\* db.query(TaskDB).filter(TaskDB.title == title).first() is not None
TitleExists(tbl, title) ==
    \E id \in DOMAIN tbl : tbl[id].title = title

\* db.query(TaskDB).filter(TaskDB.title == title, TaskDB.id != task_id).first()
OtherTitleExists(tbl, title, task_id) ==
    \E id \in DOMAIN tbl : tbl[id].title = title /\ id # task_id

\* db.query(TaskDB).all()
AllTasks(tbl) ==
    { Task(id, tbl[id]) : id \in DOMAIN tbl }

\* Mutant: the status filter is dropped.
TasksWithStatus_nofilter(tbl, status) ==
    AllTasks(tbl)

\* db.query(TaskDB).filter(TaskDB.status == status).all()
TasksWithStatus(tbl, status) ==
    { Task(id, tbl[id]) : id \in { i \in DOMAIN tbl : tbl[i].status = status } }

\* The row create_task inserts; pomodoro_active takes the column default.
NewTaskDB(task_in) ==
    [title |-> task_in.title, description |-> task_in.description,
     status |-> task_in.status, pomodoro_active |-> FALSE]

\* Mutant: the row is replaced by a fresh one, which resets pomodoro_active.
UpdatedTaskDB_replace(row, task_update) ==
    NewTaskDB(task_update)

\* The three attribute assignments of update_task.
UpdatedTaskDB(row, task_update) ==
    [row EXCEPT !.title = task_update.title,
                !.description = task_update.description,
                !.status = task_update.status]

\* db.add(row); db.commit(), and the insertion of a key into a dict.
Insert(tbl, id, row) ==
    [i \in DOMAIN tbl \cup {id} |-> IF i = id THEN row ELSE tbl[i]]

\* Mutant: the row is not removed.
Delete_keep(tbl, id) ==
    tbl

\* db.delete(task); db.commit()
Delete(tbl, id) ==
    [i \in DOMAIN tbl \ {id} |-> tbl[i]]

\* --------------------------------------------------------- requests/responses
Request(op, task_id, body, status) ==
    [op |-> op, task_id |-> task_id, body |-> body, status |-> status]

Response(code, detail, result) ==
    [code |-> code, detail |-> detail, result |-> result]

\* The JSON a route returns, by response_model: a Task, a List[Task], the
\* stats dict, a List[PomodoroSession], or a message/error detail only.
NoResult == [task |-> None, tasks |-> None, stats |-> None, sessions |-> None]
TaskResult(t) == [NoResult EXCEPT !.task = Some(t)]
TasksResult(ts) == [NoResult EXCEPT !.tasks = Some(ts)]
StatsResult(st) == [NoResult EXCEPT !.stats = Some(st)]
SessionsResult(ss) == [NoResult EXCEPT !.sessions = Some(ss)]

\* ------------------------------------------------------------ stats (pure)
\* (session.end_time - session.start_time).total_seconds() / 60; the rows
\* considered have whole-minute durations, for which the division is exact.
SessionTime(session) ==
    (session.end_time - session.start_time) \div SecondsPerMinute

\* Mutant: sessions that are not completed are counted too.
CompletedSessions_all(tbl) ==
    tbl

\* filter(PomodoroSessionDB.completed == True).all()
CompletedSessions(tbl) ==
    SelectSeq(tbl, LAMBDA s : s.completed = TRUE)

\* One iteration of the for loop of get_pomodoro_stats.
StatsStep(acc, session) ==
    LET task_id == session.task_id
        session_time == SessionTime(session)
        stats0 == IF task_id \in DOMAIN acc.task_stats
                  THEN acc.task_stats
                  ELSE Insert(acc.task_stats, task_id,
                              [completed_sessions |-> 0, total_time |-> 0])
    IN  [task_stats |->
            [stats0 EXCEPT
                ![task_id] = [completed_sessions |-> @.completed_sessions + 1,
                              total_time |-> @.total_time + session_time]],
         total_time |-> acc.total_time + session_time]

RECURSIVE StatsLoop(_, _)
StatsLoop(acc, rows) ==
    IF rows = <<>> THEN acc
    ELSE StatsLoop(StatsStep(acc, Head(rows)), Tail(rows))

PomodoroStats(tbl) ==
    StatsLoop([task_stats |-> <<>>, total_time |-> 0], CompletedSessions(tbl))

\* ------------------------------------------------------------ initial state
NoRequest == Request("none", None, None, None)
NoResponse == Response(0, "none", NoResult)
Workers == {1, 2}

\* Empty tables (Base.metadata.create_all on a fresh database), no request yet.
Init ==
    /\ tasks = <<>>
    /\ sessions = <<>>
    /\ issued = {}
    /\ req = NoRequest
    /\ resp = NoResponse
    /\ written = [id \in Ids |-> None]
    /\ pc = [w \in Workers |-> "idle"]
    /\ wreq = [w \in Workers |-> NoRequest]
    /\ loaded = [w \in Workers |-> None]
    /\ wresp = [w \in Workers |-> NoResponse]

wvars == <<pc, wreq, loaded, wresp>>

\* --------------------------------------- routes, one request handled at a time
\* POST /tasks
create_task(body) ==
    /\ req' = Request("create_task", None, Some(body), None)
    /\ UNCHANGED <<sessions, wvars>>
    /\ IF ~ValidTaskCreate(body)
       THEN /\ resp' = Response(422, "validation", NoResult)
            /\ UNCHANGED <<tasks, issued, written>>
       ELSE LET task_in == TaskCreate(body) IN
            IF TitleExists(tasks, task_in.title)
            THEN /\ resp' = Response(400, "already exists", NoResult)
                 /\ UNCHANGED <<tasks, issued, written>>
            ELSE \E task_id \in Ids \ issued :
                 /\ issued' = issued \cup {task_id}
                 /\ tasks' = Insert(tasks, task_id, NewTaskDB(task_in))
                 /\ resp' = Response(200, "ok", TaskResult(Task(task_id, tasks'[task_id])))
                 /\ written' = [written EXCEPT ![task_id] = Some(task_in)]

\* GET /tasks?status=
get_tasks(status) ==
    /\ req' = Request("get_tasks", None, None, status)
    /\ UNCHANGED <<tasks, sessions, issued, written, wvars>>
    /\ IF status # None
       THEN resp' = Response(200, "ok", TasksResult(TasksWithStatus(tasks, status[1])))
       ELSE resp' = Response(200, "ok", TasksResult(AllTasks(tasks)))

\* GET /tasks/{task_id}
get_task(task_id) ==
    /\ req' = Request("get_task", Some(task_id), None, None)
    /\ UNCHANGED <<tasks, sessions, issued, written, wvars>>
    /\ IF task_id \notin DOMAIN tasks
       THEN resp' = Response(404, "does not exist", NoResult)
       ELSE resp' = Response(200, "ok", TaskResult(Task(task_id, tasks[task_id])))

\* PUT /tasks/{task_id}
update_task(task_id, body) ==
    /\ req' = Request("update_task", Some(task_id), Some(body), None)
    /\ UNCHANGED <<sessions, issued, wvars>>
    /\ IF ~ValidTaskCreate(body)
       THEN /\ resp' = Response(422, "validation", NoResult)
            /\ UNCHANGED <<tasks, written>>
       ELSE LET task_update == TaskCreate(body) IN
            IF task_id \notin DOMAIN tasks
            THEN /\ resp' = Response(404, "does not exist", NoResult)
                 /\ UNCHANGED <<tasks, written>>
            ELSE IF OtherTitleExists(tasks, task_update.title, task_id)
            THEN /\ resp' = Response(400, "already exists", NoResult)
                 /\ UNCHANGED <<tasks, written>>
            ELSE /\ tasks' = [tasks EXCEPT
                                ![task_id] = UpdatedTaskDB(@, task_update)]
                 /\ resp' = Response(200, "ok", TaskResult(Task(task_id, tasks'[task_id])))
                 /\ written' = [written EXCEPT ![task_id] = Some(task_update)]

\* DELETE /tasks/{task_id}
delete_task(task_id) ==
    /\ req' = Request("delete_task", Some(task_id), None, None)
    /\ UNCHANGED <<sessions, issued, wvars>>
    /\ IF task_id \notin DOMAIN tasks
       THEN /\ resp' = Response(404, "does not exist", NoResult)
            /\ UNCHANGED <<tasks, written>>
       ELSE /\ tasks' = Delete(tasks, task_id)
            /\ resp' = Response(200, "has been deleted", NoResult)
            /\ written' = [written EXCEPT ![task_id] = None]

\* Mutant: the test of pomodoro_active is missing.
create_pomodoro_timer_nocheck(task_id) ==
    /\ req' = Request("create_pomodoro_timer", Some(task_id), None, None)
    /\ UNCHANGED <<sessions, issued, written, wvars>>
    /\ IF task_id \notin DOMAIN tasks
       THEN /\ resp' = Response(404, "does not exist", NoResult)
            /\ UNCHANGED tasks
       ELSE /\ tasks' = [tasks EXCEPT ![task_id].pomodoro_active = TRUE]
            /\ resp' = Response(200, "timer created", NoResult)

\* POST /pomodoro?task_id=
create_pomodoro_timer(task_id) ==
    /\ req' = Request("create_pomodoro_timer", Some(task_id), None, None)
    /\ UNCHANGED <<sessions, issued, written, wvars>>
    /\ IF task_id \notin DOMAIN tasks
       THEN /\ resp' = Response(404, "does not exist", NoResult)
            /\ UNCHANGED tasks
       ELSE IF tasks[task_id].pomodoro_active
       THEN /\ resp' = Response(400, "already active", NoResult)
            /\ UNCHANGED tasks
       ELSE /\ tasks' = [tasks EXCEPT ![task_id].pomodoro_active = TRUE]
            /\ resp' = Response(200, "timer created", NoResult)

\* POST /pomodoro/{task_id}/stop
stop_pomodoro_timer(task_id) ==
    /\ req' = Request("stop_pomodoro_timer", Some(task_id), None, None)
    /\ UNCHANGED <<sessions, issued, written, wvars>>
    /\ IF task_id \notin DOMAIN tasks
       THEN /\ resp' = Response(404, "does not exist", NoResult)
            /\ UNCHANGED tasks
       ELSE IF ~tasks[task_id].pomodoro_active
       THEN /\ resp' = Response(400, "not active", NoResult)
            /\ UNCHANGED tasks
       ELSE /\ tasks' = [tasks EXCEPT ![task_id].pomodoro_active = FALSE]
            /\ resp' = Response(200, "timer stopped", NoResult)

\* GET /pomodoro/stats
get_pomodoro_stats ==
    /\ req' = Request("get_pomodoro_stats", None, None, None)
    /\ resp' = Response(200, "ok", StatsResult(PomodoroStats(sessions)))
    /\ UNCHANGED <<tasks, sessions, issued, written, wvars>>

\* GET /pomodoro/sessions; response_model=List[PomodoroSession]
get_pomodoro_sessions ==
    /\ req' = Request("get_pomodoro_sessions", None, None, None)
    /\ resp' = Response(200, "ok", SessionsResult(sessions))
    /\ UNCHANGED <<tasks, sessions, issued, written, wvars>>

CreateTask == \E body \in Bodies : create_task(body)
GetTasks == \E status \in {None} \cup {Some(s) : s \in TaskStatus} : get_tasks(status)
GetTask == \E task_id \in Ids : get_task(task_id)
UpdateTask == \E task_id \in Ids, body \in Bodies : update_task(task_id, body)
DeleteTask == \E task_id \in Ids : delete_task(task_id)
CreatePomodoroTimer == \E task_id \in Ids : create_pomodoro_timer(task_id)
StopPomodoroTimer == \E task_id \in Ids : stop_pomodoro_timer(task_id)

Next ==
    \/ CreateTask
    \/ GetTasks
    \/ GetTask
    \/ UpdateTask
    \/ DeleteTask
    \/ CreatePomodoroTimer
    \/ StopPomodoroTimer
    \/ get_pomodoro_stats
    \/ get_pomodoro_sessions

Spec == Init /\ [][Next]_vars

\* The statistics route applied to any content of the pomodoro_sessions table.
InitStats ==
    /\ sessions \in SessionTables
    /\ tasks = <<>>
    /\ issued = {}
    /\ req = NoRequest
    /\ resp = NoResponse
    /\ written = [id \in Ids |-> None]
    /\ pc = [w \in Workers |-> "idle"]
    /\ wreq = [w \in Workers |-> NoRequest]
    /\ loaded = [w \in Workers |-> None]
    /\ wresp = [w \in Workers |-> NoResponse]

NextStats ==
    \/ get_pomodoro_stats
    \/ get_pomodoro_sessions

SpecStats == InitStats /\ [][NextStats]_vars

\* ------------------------------------------- routes served by worker threads
\* Each sync route runs in a threadpool thread with its own Session; every
\* query and every commit is one step, and steps of different threads
\* interleave.  A statement sees the rows committed so far.  The routes
\* modelled here are the ones that write titles and flags; none of them removes
\* a row, so an object loaded by a thread still has its row when it commits.
svars == <<sessions, req, resp, written>>

ConcBodies ==
    { [title |-> TitleAbc, description |-> None, status |-> None],
      [title |-> TitleXyz, description |-> None, status |-> Some("FINISHED")] }

Answer(w, r, response) ==
    /\ wreq' = [wreq EXCEPT ![w] = r]
    /\ wresp' = [wresp EXCEPT ![w] = response]
    /\ pc' = [pc EXCEPT ![w] = "idle"]
    /\ loaded' = [loaded EXCEPT ![w] = None]

Proceed(w, r, label, obj) ==
    /\ wreq' = [wreq EXCEPT ![w] = r]
    /\ pc' = [pc EXCEPT ![w] = label]
    /\ loaded' = [loaded EXCEPT ![w] = obj]
    /\ UNCHANGED wresp

\* The UPDATE a flush emits for a loaded object: only the columns whose new
\* value differs from the loaded one are written.
Flush(current, old, new) ==
    [title |-> IF new.title # old.title THEN new.title ELSE current.title,
     description |-> IF new.description # old.description
                     THEN new.description ELSE current.description,
     status |-> IF new.status # old.status THEN new.status ELSE current.status,
     pomodoro_active |-> IF new.pomodoro_active # old.pomodoro_active
                         THEN new.pomodoro_active ELSE current.pomodoro_active]

\* create_task, line 76-78: the title query.
create_task_query(w, body) ==
    LET r == Request("create_task", None, Some(body), None) IN
    /\ pc[w] = "idle"
    /\ UNCHANGED <<tasks, issued, svars>>
    /\ IF TitleExists(tasks, TaskCreate(body).title)
       THEN Answer(w, r, Response(400, "already exists", NoResult))
       ELSE Proceed(w, r, "insert", None)

\* create_task, line 81-86: uuid4, add, commit, refresh.
create_task_commit(w) ==
    /\ pc[w] = "insert"
    /\ UNCHANGED svars
    /\ \E task_id \in Ids \ issued :
         /\ issued' = issued \cup {task_id}
         /\ tasks' = Insert(tasks, task_id, NewTaskDB(TaskCreate(wreq[w].body[1])))
         /\ Answer(w, wreq[w],
                   Response(200, "ok", TaskResult(Task(task_id, tasks'[task_id]))))

\* update_task, create_pomodoro_timer, stop_pomodoro_timer: the query by id
\* that opens each of them.
load_task(w, op, task_id, body) ==
    LET r == Request(op, Some(task_id), body, None) IN
    /\ pc[w] = "idle"
    /\ UNCHANGED <<tasks, issued, svars>>
    /\ IF task_id \notin DOMAIN tasks
       THEN Answer(w, r, Response(404, "does not exist", NoResult))
       ELSE Proceed(w, r, "loaded", Some(tasks[task_id]))

\* update_task, line 108-110: the query for another task with the title.
update_task_query(w) ==
    /\ pc[w] = "loaded"
    /\ wreq[w].op = "update_task"
    /\ UNCHANGED <<tasks, issued, svars>>
    /\ IF OtherTitleExists(tasks, TaskCreate(wreq[w].body[1]).title, wreq[w].task_id[1])
       THEN Answer(w, wreq[w], Response(400, "already exists", NoResult))
       ELSE Proceed(w, wreq[w], "update", loaded[w])

\* update_task, line 113-118: assignments, commit, refresh.
update_task_commit(w) ==
    LET task_id == wreq[w].task_id[1]
        old == loaded[w][1]
        new == UpdatedTaskDB(old, TaskCreate(wreq[w].body[1])) IN
    /\ pc[w] = "update"
    /\ UNCHANGED <<issued, svars>>
    /\ tasks' = [tasks EXCEPT ![task_id] = Flush(@, old, new)]
    /\ Answer(w, wreq[w], Response(200, "ok", TaskResult(Task(task_id, tasks'[task_id]))))

\* create_pomodoro_timer, line 136-137, and stop_pomodoro_timer, line 149-150:
\* the test of the flag of the loaded object.
pomodoro_check(w) ==
    LET start == wreq[w].op = "create_pomodoro_timer" IN
    /\ pc[w] = "loaded"
    /\ wreq[w].op \in {"create_pomodoro_timer", "stop_pomodoro_timer"}
    /\ UNCHANGED <<tasks, issued, svars>>
    /\ IF loaded[w][1].pomodoro_active = start
       THEN Answer(w, wreq[w],
                   Response(400, IF start THEN "already active" ELSE "not active", NoResult))
       ELSE Proceed(w, wreq[w], "flip", loaded[w])

\* create_pomodoro_timer, line 139-141, and stop_pomodoro_timer, line 152-154:
\* the assignment and the commit.
pomodoro_commit(w) ==
    LET task_id == wreq[w].task_id[1]
        start == wreq[w].op = "create_pomodoro_timer"
        old == loaded[w][1]
        new == [old EXCEPT !.pomodoro_active = start] IN
    /\ pc[w] = "flip"
    /\ UNCHANGED <<issued, svars>>
    /\ tasks' = [tasks EXCEPT ![task_id] = Flush(@, old, new)]
    /\ Answer(w, wreq[w],
              Response(200, IF start THEN "timer created" ELSE "timer stopped", NoResult))

CreateTaskQuery == \E w \in Workers, body \in ConcBodies : create_task_query(w, body)
CreateTaskCommit == \E w \in Workers : create_task_commit(w)
UpdateTaskLoad ==
    \E w \in Workers, task_id \in Ids, body \in ConcBodies :
        load_task(w, "update_task", task_id, Some(body))
UpdateTaskQuery == \E w \in Workers : update_task_query(w)
UpdateTaskCommit == \E w \in Workers : update_task_commit(w)
PomodoroLoad ==
    \E w \in Workers, task_id \in Ids,
       op \in {"create_pomodoro_timer", "stop_pomodoro_timer"} :
        load_task(w, op, task_id, None)
PomodoroCheck == \E w \in Workers : pomodoro_check(w)
PomodoroCommit == \E w \in Workers : pomodoro_commit(w)

NextConc ==
    \/ CreateTaskQuery
    \/ CreateTaskCommit
    \/ UpdateTaskLoad
    \/ UpdateTaskQuery
    \/ UpdateTaskCommit
    \/ PomodoroLoad
    \/ PomodoroCheck
    \/ PomodoroCommit

SpecConc == Init /\ [][NextConc]_vars

\* ====================================================================== claims
\* str.lower() on the characters used in titles.
LowerChar(c) ==
    CASE c = "A" -> "a" [] c = "B" -> "b" [] OTHER -> c

Lower(str) == [i \in 1..Len(str) |-> LowerChar(str[i])]

SameTitleIgnoringCase(t1, t2) == Lower(t1) = Lower(t2)

\* C1: in every reachable state no two distinct stored tasks have titles that
\* are equal under case-insensitive comparison.
C1_CaseInsensitiveUnique ==
    \A i \in DOMAIN tasks : \A j \in DOMAIN tasks :
        i # j => ~SameTitleIgnoringCase(tasks[i].title, tasks[j].title)

\* C2: a validated create answers 400 and leaves the tasks table unchanged
\* whenever a stored title matches the given one ignoring case; otherwise it
\* answers 200, stores exactly one new task under an identifier no stored task
\* uses, and returns it.
C2_CreateContract ==
    [][ (req'.op = "create_task" /\ resp'.code # 422) =>
          LET title == req'.body[1].title IN
          IF \E id \in DOMAIN tasks : SameTitleIgnoringCase(tasks[id].title, title)
          THEN resp'.code = 400 /\ tasks' = tasks
          ELSE /\ resp'.code = 200
               /\ \E id \in Ids \ DOMAIN tasks :
                    /\ DOMAIN tasks' = DOMAIN tasks \cup {id}
                    /\ \A i \in DOMAIN tasks : tasks'[i] = tasks[i]
                    /\ resp'.result = TaskResult(Task(id, tasks'[id]))
                    /\ tasks'[id].title = title ]_vars

\* C3: a validated update answers 404 when no task has the id (before any
\* title check), 400 with the table unchanged when a task with another id has
\* the title ignoring case, and 200 otherwise, in particular when only the
\* updated task itself carries the title.
C3_UpdateContract ==
    [][ (req'.op = "update_task" /\ resp'.code # 422) =>
          LET id == req'.task_id[1]
              title == req'.body[1].title IN
          IF id \notin DOMAIN tasks
          THEN resp'.code = 404 /\ tasks' = tasks
          ELSE IF \E o \in DOMAIN tasks :
                    o # id /\ SameTitleIgnoringCase(tasks[o].title, title)
          THEN resp'.code = 400 /\ tasks' = tasks
          ELSE resp'.code = 200 /\ tasks'[id].title = title ]_vars

\* C4: on an existing task start succeeds exactly when pomodoro_active is
\* false and then sets it, stop succeeds exactly when it is true and then
\* clears it; the failing one answers 400 and leaves the table unchanged; on
\* an absent task both answer 404.
C4_PomodoroToggle ==
    [][ /\ req'.op = "create_pomodoro_timer" =>
             LET id == req'.task_id[1] IN
             IF id \notin DOMAIN tasks
             THEN resp'.code = 404 /\ tasks' = tasks
             ELSE /\ (resp'.code = 200) <=> ~tasks[id].pomodoro_active
                  /\ resp'.code = 200 => tasks'[id].pomodoro_active
                  /\ resp'.code # 200 => resp'.code = 400 /\ tasks' = tasks
        /\ req'.op = "stop_pomodoro_timer" =>
             LET id == req'.task_id[1] IN
             IF id \notin DOMAIN tasks
             THEN resp'.code = 404 /\ tasks' = tasks
             ELSE /\ (resp'.code = 200) <=> tasks[id].pomodoro_active
                  /\ resp'.code = 200 => ~tasks'[id].pomodoro_active
                  /\ resp'.code # 200 => resp'.code = 400 /\ tasks' = tasks
      ]_vars

\* A stop has succeeded, which only a task started before allows.
C4_Witness ==
    /\ req.op = "stop_pomodoro_timer"
    /\ resp.code = 200
    /\ req.task_id[1] \in DOMAIN tasks
    /\ ~tasks[req.task_id[1]].pomodoro_active

\* C5: get(id) answers 404 exactly when no successful create returned id or
\* the task was deleted since; otherwise it returns id with the title,
\* description and status of the creation or of the last successful update.
C5_GetReflectsWrites ==
    req.op = "get_task" =>
        LET id == req.task_id[1] IN
        /\ (resp.code = 404) <=> (id \notin issued \/ written[id] = None)
        /\ resp.code # 404 =>
             /\ resp.code = 200
             /\ resp.result =
                  TaskResult([id |-> id, title |-> written[id][1].title,
                              description |-> written[id][1].description,
                              status |-> written[id][1].status])

\* A get of a task that was created and then deleted.
C5_Witness ==
    /\ req.op = "get_task"
    /\ req.task_id[1] \in issued
    /\ resp.code = 404

\* C6: list(status=X) returns exactly the stored tasks whose status is X, and
\* list() returns every stored task, each with its stored fields.
C6_ListFilter ==
    req.op = "get_tasks" =>
        /\ resp.code = 200
        /\ LET out == resp.result.tasks[1] IN
           /\ \A id \in DOMAIN tasks :
                (req.status = None \/ tasks[id].status = req.status[1])
                    <=> (\E t \in out : t.id = id)
           /\ \A t \in out :
                /\ t.id \in DOMAIN tasks
                /\ t.title = tasks[t.id].title
                /\ t.description = tasks[t.id].description
                /\ t.status = tasks[t.id].status
           /\ \A t1 \in out : \A t2 \in out : t1.id = t2.id => t1 = t2

\* A filtered list that keeps one stored task and leaves another out.
C6_Witness ==
    /\ req.op = "get_tasks"
    /\ req.status # None
    /\ resp.result.tasks[1] # {}
    /\ Cardinality(resp.result.tasks[1]) < Cardinality(DOMAIN tasks)

\* Whole minutes between start_time and end_time.
Minutes(session) ==
    CHOOSE m \in -60..60 :
        m * 60 = session.end_time - session.start_time

CompletedOf(task_id) ==
    { i \in DOMAIN sessions :
        sessions[i].completed /\ sessions[i].task_id = task_id }

RECURSIVE SumMinutes(_)
SumMinutes(idx) ==
    IF idx = {} THEN 0
    ELSE LET i == CHOOSE i \in idx : TRUE
         IN  Minutes(sessions[i]) + SumMinutes(idx \ {i})

\* C7: stats() has an entry exactly for the task ids with a completed
\* session, holding the number of its completed sessions and the sum of their
\* minutes, and the grand total is the sum of the per-task totals.
C7_Stats ==
    req.op = "get_pomodoro_stats" =>
        LET out == resp.result.stats[1] IN
        /\ DOMAIN out.task_stats =
             { t \in SessionTaskIds : CompletedOf(t) # {} }
        /\ \A t \in DOMAIN out.task_stats :
             /\ out.task_stats[t].completed_sessions = Cardinality(CompletedOf(t))
             /\ out.task_stats[t].total_time = SumMinutes(CompletedOf(t))
        /\ out.total_time =
             SumMinutes({ i \in DOMAIN sessions : sessions[i].completed })

\* Task A has two completed sessions of 25 and 10 minutes, task B only a
\* session that is not completed.
C7_Witness ==
    /\ req.op = "get_pomodoro_stats"
    /\ Cardinality(CompletedOf("A")) = 2
    /\ SumMinutes(CompletedOf("A")) = 35
    /\ CompletedOf("B") = {}
    /\ \E i \in DOMAIN sessions : sessions[i].task_id = "B"
    /\ resp.result.stats[1].total_time = 35

\* C8: a created task starts with pomodoro_active false; a successful update
\* sets title, description and status of the addressed task and leaves its
\* pomodoro_active and every other task unchanged; a successful start or stop
\* changes nothing but the flag of the addressed task; no other request
\* changes any flag.
C8_Frame ==
    [][ /\ (req'.op = "create_task" /\ resp'.code = 200) =>
             tasks'[resp'.result.task[1].id].pomodoro_active = FALSE
        /\ (req'.op = "update_task" /\ resp'.code = 200) =>
             LET id == req'.task_id[1]
                 task_update == TaskCreate(req'.body[1]) IN
             /\ DOMAIN tasks' = DOMAIN tasks
             /\ \A o \in DOMAIN tasks : o # id => tasks'[o] = tasks[o]
             /\ tasks'[id].pomodoro_active = tasks[id].pomodoro_active
             /\ tasks'[id].title = task_update.title
             /\ tasks'[id].description = task_update.description
             /\ tasks'[id].status = task_update.status
             /\ resp'.result.task[1].id = id
        /\ (req'.op \in {"create_pomodoro_timer", "stop_pomodoro_timer"}
              /\ resp'.code = 200) =>
             LET id == req'.task_id[1] IN
             /\ DOMAIN tasks' = DOMAIN tasks
             /\ \A o \in DOMAIN tasks : o # id => tasks'[o] = tasks[o]
             /\ tasks'[id].title = tasks[id].title
             /\ tasks'[id].description = tasks[id].description
             /\ tasks'[id].status = tasks[id].status
        /\ \A id \in DOMAIN tasks \cap DOMAIN tasks' :
             tasks'[id].pomodoro_active # tasks[id].pomodoro_active =>
                /\ req'.op \in {"create_pomodoro_timer", "stop_pomodoro_timer"}
                /\ req'.task_id[1] = id
      ]_vars

\* An update has succeeded on a task whose timer is active, next to another task.
C8_Witness ==
    /\ req.op = "update_task"
    /\ resp.code = 200
    /\ tasks[req.task_id[1]].pomodoro_active
    /\ Cardinality(DOMAIN tasks) >= 2

\* C9: with the title query and the insert/commit of create and update as
\* separate steps of concurrent requests, no interleaving reaches a state in
\* which two distinct tasks have the same title.
C9_ConcurrentUniqueTitles ==
    \A i \in DOMAIN tasks : \A j \in DOMAIN tasks :
        i # j => tasks[i].title # tasks[j].title

\* C10: with the read of pomodoro_active and the write plus commit as separate
\* steps of concurrent requests, the flip is serialized: a start that succeeds
\* turns the flag from false to true and a stop that succeeds turns it from
\* true to false, so that of two concurrent starts (stops) on one task at most
\* one succeeds.
C10_SerializedFlip ==
    [][ \A w \in Workers :
          (pc[w] = "flip" /\ pc'[w] = "idle" /\ wresp'[w].code = 200) =>
             /\ wreq[w].task_id[1] \in DOMAIN tasks
             /\ tasks[wreq[w].task_id[1]].pomodoro_active
                  = (wreq[w].op = "stop_pomodoro_timer")
      ]_vars

====
